---- MODULE Spec2Model ----
(***************************************************************************)
(* boulderd: the update pass over a recipe repository.                     *)
(*                                                                         *)
(*   src/src/logic.rs       update_cosmic_packages (the dispatcher)        *)
(*   src/src/repo_state.rs  Package::update, Package::get_latest,          *)
(*                          is_git_source, replace_version_in_url,         *)
(*                          deserialize_upstreams                          *)
(*                                                                         *)
(* Strings of the program are sequences of one-character strings, so that  *)
(* starts_with, contains and the regex substitution are computed, not      *)
(* assumed.                                                                *)
(***************************************************************************)
EXTENDS Integers, Sequences, FiniteSets, TLC

VARIABLES
    packages,   \* RepoState.packages: the discovered package set, in walk order
    procCwd,    \* the working directory of the boulderd process itself
    dpc,        \* where update_cosmic_packages is: "iter", "scope", "returned", "panicked"
    idx,        \* position of the into_iter() over the packages (1-based)
    workers,    \* per package: the thread that runs Package::update and its locals
    probe       \* a single call of a pure helper: its arguments and its result

vars == <<packages, procCwd, dpc, idx, workers, probe>>

----------------------------------------------------------------------------
(* Bounds of the model *)

\* largest discovered package set
MaxPackages == 2
\* longest URL given to replace_version_in_url in SpecReplace
MaxUrlLen == 3
\* longest version string given to replace_version_in_url in SpecReplace
MaxVerLen == 2
\* what a pipe between the updater and boulderd holds before a write blocks
PipeCapacity == 1

----------------------------------------------------------------------------
(* str helpers (std) *)

EmptyStr == <<>>

\* p occurs in s at position i (1-based)
MatchAt(s, p, i) ==
    /\ i >= 1
    /\ i + Len(p) - 1 <= Len(s)
    /\ \A k \in 1..Len(p) : s[i + k - 1] = p[k]

\* str::starts_with
starts_with(s, p) == MatchAt(s, p, 1)

\* str::contains
contains(s, p) == \E i \in 1..(Len(s) + 1) : MatchAt(s, p, i)

SetMin(S) == CHOOSE x \in S : \A y \in S : x <= y

\* str::replace with an empty pattern: `to` goes in at every character boundary
RECURSIVE interleave(_, _)
interleave(s, to) ==
    IF s = <<>> THEN to
    ELSE to \o <<Head(s)>> \o interleave(Tail(s), to)

\* str::replace: every non-overlapping occurrence of `from`, left to right
RECURSIVE str_replace(_, _, _)
str_replace(s, from, to) ==
    IF from = <<>> THEN interleave(s, to)
    ELSE IF s = <<>> THEN <<>>
    ELSE IF MatchAt(s, from, 1)
         THEN to \o str_replace(SubSeq(s, Len(from) + 1, Len(s)), from, to)
         ELSE <<Head(s)>> \o str_replace(Tail(s), from, to)

----------------------------------------------------------------------------
(* regex::Regex for the two patterns replace_version_in_url builds.        *)
(* A pattern is [optv, lit]: an optional leading "v" (greedy) followed by  *)
(* the escaped, hence literal, version string.                             *)

\* length of the match of pat that starts at position i of s, or -1
regex_match_len(pat, s, i) ==
    IF pat.optv /\ i <= Len(s) /\ s[i] = "v" /\ MatchAt(s, pat.lit, i + 1)
    THEN 1 + Len(pat.lit)
    ELSE IF MatchAt(s, pat.lit, i) THEN Len(pat.lit)
    ELSE -1

regex_match_starts(pat, s) ==
    {i \in 1..(Len(s) + 1) : regex_match_len(pat, s, i) >= 0}

\* Regex::is_match
regex_is_match(pat, s) == regex_match_starts(pat, s) # {}

\* Regex::replace: the leftmost match only is replaced.  The replacement is
\* taken literally: no string of the model holds the "$" of a capture reference.
regex_replace(pat, s, rep) ==
    IF ~regex_is_match(pat, s) THEN s
    ELSE LET i == SetMin(regex_match_starts(pat, s))
             n == regex_match_len(pat, s, i)
         IN  SubSeq(s, 1, i - 1) \o rep \o SubSeq(s, i + n, Len(s))

\* the `patterns` array: r"v?{old}" then r"{old}"
version_patterns(old_version) ==
    << [optv |-> TRUE,  lit |-> old_version],
       [optv |-> FALSE, lit |-> old_version] >>

replace_version_in_url(url, old_version, new_version) ==
    LET patterns == version_patterns(old_version)
        matching == {k \in 1..Len(patterns) : regex_is_match(patterns[k], url)}
    IN  IF matching # {}
        THEN regex_replace(patterns[SetMin(matching)], url, new_version)
        ELSE str_replace(url, old_version, new_version)

----------------------------------------------------------------------------
(* String literals of the program and of the modelled inputs *)

GitMarker    == <<"g", "i", "t", "|">>
GitSuffix    == <<".", "g", "i", "t">>
CommaSpace   == <<",", " ">>
Scheme       == <<"h", "t", "t", "p", "s", ":", "/", "/">>

\* the git_forges array of is_git_source
git_forges ==
    { <<"g", "i", "t", "h", "u", "b", ".", "c", "o", "m">>,
      <<"g", "i", "t", "l", "a", "b", ".", "c", "o", "m">>,
      <<"b", "i", "t", "b", "u", "c", "k", "e", "t", ".", "c", "o", "m">>,
      <<"g", "i", "t", ".", "k", "e", "r", "n", "e", "l", ".", "o", "r", "g">>,
      <<"c", "o", "d", "e", ".", "v", "i", "d", "e", "o", "l", "a", "n", ".", "o", "r", "g">>,
      <<"g", "i", "t", ".", "s", "a", "v", "a", "n", "n", "a", "h", ".", "g", "n", "u", ".", "o", "r", "g">>,
      <<"i", "n", "v", "e", "n", "t", ".", "k", "d", "e", ".", "o", "r", "g">> }

----------------------------------------------------------------------------
(* Source classification *)

is_git_source(upstream_entry) ==
    \/ starts_with(upstream_entry.url, GitMarker)
    \/ /\ \E forge \in git_forges : contains(upstream_entry.url, forge)
       /\ contains(upstream_entry.url, GitSuffix)

get_version_source_type(upstream_entry) ==
    IF is_git_source(upstream_entry) THEN "Git" ELSE "Archive"

----------------------------------------------------------------------------
(* Manifest and monitoring documents *)

\* One element of the raw `upstreams` list of stone.yaml: a single-key mapping
\* url -> value, the value being a string, a mapping with a string `hash`, a
\* mapping without one, or another YAML value.
RawValueKinds == {"string", "mapping", "mapping_nohash", "other"}

\* deserialize_upstreams, one list element: the entry, or dropped (<<>>)
deserialize_upstream_item(raw) ==
    IF raw.kind \in {"mapping_nohash", "other"} THEN <<>>
    ELSE << [url   |-> raw.url,
             value |-> [tag  |-> IF starts_with(raw.url, GitMarker) THEN "Git"
                                 ELSE IF raw.kind = "string" THEN "Simple"
                                 ELSE "Extended",
                        hash |-> raw.hash]] >>

RECURSIVE deserialize_items(_)
deserialize_items(raws) ==
    IF raws = <<>> THEN <<>>
    ELSE deserialize_upstream_item(Head(raws)) \o deserialize_items(Tail(raws))

\* deserialize_upstreams: Option<Vec<UpstreamEntry>>
deserialize_upstreams(raw) ==
    [some |-> raw.some, entries |-> IF raw.some THEN deserialize_items(raw.items) ELSE <<>>]

\* manifest.upstreams.as_ref().and_then(|u| u.first()): <<>> or <<entry>>
first_upstream(manifest) ==
    IF manifest.upstreams.some /\ manifest.upstreams.entries # <<>>
    THEN <<Head(manifest.upstreams.entries)>>
    ELSE <<>>

\* Package::get_current_hash
get_current_hash(upstream) == upstream.value.hash

\* the cur_hash local of Package::update
current_hash(manifest) ==
    IF first_upstream(manifest) = <<>> THEN EmptyStr
    ELSE first_upstream(manifest)[1].value.hash

----------------------------------------------------------------------------
(* Upstream resolution *)

\* Package::get_git_hash: a stub that returns String::new()
get_git_hash(version, upstream) == EmptyStr

\* What client.get(url).send() and response.json::<ApiProject>() can give:
\* send() fails on a transport error only; any HTTP status is an Ok response;
\* json() fails when the body does not decode to an object with a `version`.
StatusCodes == {"200", "500"}

\* Package::get_latest once the request has been answered by `resp`
get_latest_response(resp, cur_upstream, cur_vers) ==
    IF resp.transport # "ok" THEN <<EmptyStr, EmptyStr>>
    ELSE IF ~resp.decodes THEN <<EmptyStr, EmptyStr>>
    ELSE LET new_version == resp.version
         IN  IF new_version = cur_vers
             THEN <<new_version, get_current_hash(cur_upstream)>>
             ELSE IF get_version_source_type(cur_upstream) = "Git"
                  THEN <<new_version, get_git_hash(new_version, cur_upstream)>>
                  ELSE <<new_version,
                         replace_version_in_url(cur_upstream.url, cur_vers, new_version)>>

\* Package::get_latest sends a request only when monitoring.releases.id is Some
get_latest_sends(monitoring) == monitoring.id_some

----------------------------------------------------------------------------
(* The update decision of Package::update *)

\* the upstream_arg local (empty when there is no first upstream)
upstream_arg_of(manifest, latest_hash_or_url) ==
    IF first_upstream(manifest) = <<>> THEN EmptyStr
    ELSE LET entry == first_upstream(manifest)[1]
         IN  IF get_version_source_type(entry) = "Git"
             THEN entry.url \o CommaSpace \o latest_hash_or_url
             ELSE latest_hash_or_url

\* needs_update with the identity test inverted
needs_update_inverted(latest_vers, cur_vers, latest_hash_or_url, cur_hash) ==
    latest_vers # cur_vers \/ latest_hash_or_url = cur_hash

\* the comparison that guards the update branch
needs_update(latest_vers, cur_vers, latest_hash_or_url, cur_hash) ==
    latest_vers # cur_vers \/ latest_hash_or_url # cur_hash

\* update_outcome without the early return on an empty latest_hash_or_url
update_outcome_no_early_return(manifest, latest_vers, latest_hash_or_url) ==
    IF needs_update(latest_vers, manifest.version, latest_hash_or_url,
                    current_hash(manifest))
    THEN IF upstream_arg_of(manifest, latest_hash_or_url) = EmptyStr
         THEN "Skip"
         ELSE "Update"
    ELSE "NoOp"

\* which way Package::update goes once latest is known
update_outcome(manifest, latest_vers, latest_hash_or_url) ==
    IF latest_hash_or_url = EmptyStr THEN "Skip"
    ELSE IF needs_update(latest_vers, manifest.version, latest_hash_or_url,
                         current_hash(manifest))
         THEN IF upstream_arg_of(manifest, latest_hash_or_url) = EmptyStr
              THEN "Skip"
              ELSE "Update"
         ELSE "NoOp"

\* the argument list given to Command::new("boulder")
boulder_args(latest_vers, upstream_arg) ==
    << "recipe", "update", "--ver", latest_vers, "--upstream", upstream_arg,
       "stone.yaml", "-w", "--build", "--local" >>

----------------------------------------------------------------------------
(* Inputs: what a package directory and the release-tracking service hold *)

V120 == <<"1", ".", "2", ".", "0">>
V130 == <<"1", ".", "3", ".", "0">>
Hash1 == <<"a", "b", "c", "d", "1", "2", "3", "4">>
ExampleOrg == <<"e", "x", "a", "m", "p", "l", "e", ".", "o", "r", "g">>
GithubCom == <<"g", "i", "t", "h", "u", "b", ".", "c", "o", "m">>

\* https://example.org/pkg-1.2.0.tar.gz
UrlArchive ==
    Scheme \o ExampleOrg \o
    <<"/", "p", "k", "g", "-", "1", ".", "2", ".", "0", ".", "t", "a", "r", ".", "g", "z">>
\* https://example.org/v1.2.0/pkg.tar.gz
UrlArchiveV ==
    Scheme \o ExampleOrg \o
    <<"/", "v", "1", ".", "2", ".", "0", "/", "p", "k", "g", ".", "t", "a", "r", ".", "g", "z">>
\* https://github.com/a/b.git
UrlForge == Scheme \o GithubCom \o <<"/", "a", "/", "b", ".", "g", "i", "t">>
\* git|https://github.com/a/b.git
UrlGitMarker == GitMarker \o UrlForge

RawItem(url, kind, hash) == [url |-> url, kind |-> kind, hash |-> hash]

ManifestDoc(version, some, items) ==
    [state |-> "ok", version |-> version, upstreams |-> [some |-> some, items |-> items]]

\* a stone.yaml that cannot be read, or does not parse
BadManifestDoc(state) ==
    [state |-> state, version |-> EmptyStr, upstreams |-> [some |-> FALSE, items |-> <<>>]]

MonitoringDoc(state, id_some) == [state |-> state, id_some |-> id_some]

GoodManifestDocs ==
    { ManifestDoc(V120, FALSE, <<>>),
      ManifestDoc(V120, TRUE, <<>>),
      ManifestDoc(V120, TRUE, <<RawItem(UrlForge, "other", EmptyStr),
                                RawItem(UrlArchive, "string", Hash1)>>),
      ManifestDoc(V120, TRUE, <<RawItem(UrlArchiveV, "mapping", Hash1)>>),
      ManifestDoc(V120, TRUE, <<RawItem(UrlArchive, "string", EmptyStr)>>),
      ManifestDoc(V120, TRUE, <<RawItem(UrlGitMarker, "mapping", Hash1)>>),
      ManifestDoc(V120, TRUE, <<RawItem(UrlForge, "string", Hash1)>>),
      ManifestDoc(EmptyStr, TRUE, <<RawItem(UrlArchive, "string", Hash1)>>) }

\* the (monitoring.yaml, stone.yaml) pairs a package directory is drawn from
PackageDocs ==
    {<<MonitoringDoc("ok", TRUE), m>> : m \in GoodManifestDocs}
    \cup {<<MonitoringDoc("ok", FALSE), ManifestDoc(V120, TRUE, <<RawItem(d, "string", Hash1)>>)>> :
              d \in {UrlArchive, UrlGitMarker}}
    \cup {<<MonitoringDoc(st, FALSE), ManifestDoc(V120, TRUE, <<RawItem(UrlArchive, "string", Hash1)>>)>> :
              st \in {"unreadable", "malformed"}}
    \cup {<<MonitoringDoc("ok", TRUE), BadManifestDoc(st)>> : st \in {"unreadable", "malformed"}}

\* what the release-tracking service can answer
Responses ==
    { [transport |-> "fail", status |-> "200", decodes |-> FALSE, version |-> EmptyStr] }
    \cup { [transport |-> "ok", status |-> st, decodes |-> FALSE, version |-> EmptyStr] :
              st \in StatusCodes }
    \cup { [transport |-> "ok", status |-> st, decodes |-> TRUE, version |-> v] :
              st \in StatusCodes, v \in {V120, V130, EmptyStr} }

\* a package directory, and the directory boulderd is started from when it is not
\* started from the first package's directory
PackageDir(i) == <<"recipes", i>>
LaunchDir == <<"elsewhere", 0>>

----------------------------------------------------------------------------
(* State *)

\* a Package as RepoState::default() builds it: `updated` is always false
Package(i, docs) ==
    [path |-> PackageDir(i), updated |-> FALSE, monitoring_doc |-> docs[1], manifest_doc |-> docs[2]]

\* a worker thread's record; options are <<>> or <<value>>
Worker(pc, calls, requests, decisions, spawns, outcome, locals) ==
    [pc |-> pc, calls |-> calls, requests |-> requests, decisions |-> decisions,
     spawns |-> spawns, outcome |-> outcome, locals |-> locals]

\* the locals of Package::update before it has read anything, and after it returned
NoLocals ==
    [manifest |-> <<>>, monitoring |-> <<>>, resp |-> <<>>, latest |-> <<>>,
     upstream_arg |-> EmptyStr, child |-> <<>>]

NoProbe == [fn |-> "none", args |-> <<>>, done |-> FALSE, out |-> <<>>]

Init ==
    /\ \E n \in 0..MaxPackages : \E docs \in [1..n -> PackageDocs] :
           packages = [i \in 1..n |-> Package(i, docs[i])]
    /\ procCwd \in {LaunchDir} \cup {packages[i].path : i \in 1..Len(packages) \cap {1}}
    /\ dpc = "iter"
    /\ idx = 1
    /\ workers = [i \in 1..Len(packages) |-> Worker("unspawned", 0, 0, 0, 0, "none", NoLocals)]
    /\ probe = NoProbe

Running == {"update", "lookup", "decided", "child", "wait"}

----------------------------------------------------------------------------
(* Package::update, one step per blocking point *)

\* serde_yaml::from_str::<Manifest>
parse_manifest(doc) ==
    [version |-> doc.version, upstreams |-> deserialize_upstreams(doc.upstreams)]

\* serde_yaml::from_str::<Monitoring>
parse_monitoring(doc) == [id_some |-> doc.id_some]

\* the worker once latest_vers and latest_hash_or_url are known
decided(w, manifest, monitoring, resp, latest) ==
    LET outcome == update_outcome(manifest, latest[1], latest[2])
    IN  [w EXCEPT !.pc = "decided",
                  !.decisions = @ + 1,
                  !.outcome = outcome,
                  !.locals = [manifest |-> <<manifest>>,
                              monitoring |-> <<monitoring>>,
                              resp |-> resp,
                              latest |-> <<latest>>,
                              upstream_arg |-> IF outcome = "Update"
                                               THEN upstream_arg_of(manifest, latest[2])
                                               ELSE EmptyStr,
                              child |-> <<>>]]

\* the thread enters package.update(): both documents are read and parsed
\* (unwrap panics on a document that cannot be read or does not parse); without a
\* first upstream or a tracking id nothing is requested and latest is empty
update_load(w, package) ==
    IF package.updated
    THEN [w EXCEPT !.pc = "finished", !.calls = @ + 1]
    ELSE IF package.monitoring_doc.state # "ok" \/ package.manifest_doc.state # "ok"
    THEN [w EXCEPT !.pc = "panicked", !.calls = @ + 1]
    ELSE LET manifest == parse_manifest(package.manifest_doc)
             monitoring == parse_monitoring(package.monitoring_doc)
             called == [w EXCEPT !.calls = @ + 1]
         IN  IF first_upstream(manifest) = <<>> \/ ~get_latest_sends(monitoring)
             THEN decided(called, manifest, monitoring, <<>>, <<EmptyStr, EmptyStr>>)
             ELSE [called EXCEPT !.pc = "lookup",
                                 !.requests = @ + 1,
                                 !.locals = [NoLocals EXCEPT !.manifest = <<manifest>>,
                                                             !.monitoring = <<monitoring>>]]

UpdateLoad(i) ==
    /\ i \in 1..Len(packages)
    /\ workers[i].pc = "update"
    /\ workers' = [workers EXCEPT ![i] = update_load(workers[i], packages[i])]
    /\ UNCHANGED <<packages, procCwd, dpc, idx, probe>>

\* the request of get_latest is answered (or fails), and update decides
remote_lookup(w, resp) ==
    LET manifest == w.locals.manifest[1]
    IN  decided(w, manifest, w.locals.monitoring[1], <<resp>>,
                get_latest_response(resp, first_upstream(manifest)[1], manifest.version))

RemoteLookup(i, resp) ==
    /\ i \in 1..Len(packages)
    /\ workers[i].pc = "lookup"
    /\ workers' = [workers EXCEPT ![i] = remote_lookup(workers[i], resp)]
    /\ UNCHANGED <<packages, procCwd, dpc, idx, probe>>

\* Skip and NoOp: update returns Ok(()) and the thread ends
update_return(w) == [w EXCEPT !.pc = "finished", !.locals = NoLocals]

UpdateReturn(i) ==
    /\ i \in 1..Len(packages)
    /\ workers[i].pc = "decided"
    /\ workers[i].outcome \in {"Skip", "NoOp"}
    /\ workers' = [workers EXCEPT ![i] = update_return(workers[i])]
    /\ UNCHANGED <<packages, procCwd, dpc, idx, probe>>

\* Command::new("boulder").args(..).spawn(): no current_dir is set, so the child
\* inherits the working directory of the process
boulder_command(w, cwd) ==
    [program |-> "boulder",
     args |-> boulder_args(w.locals.latest[1][1], w.locals.upstream_arg),
     cwd |-> cwd]

\* the Child of a spawned command: the process (cpc: "run", blocked in a write
\* to a full pipe, or "exited"), its two pipes (Stdio::piped) and what boulderd
\* has taken from its stderr
spawned(command) ==
    [program |-> command.program, args |-> command.args, cwd |-> command.cwd,
     cpc |-> "run", stdout_pipe |-> 0, stderr_pipe |-> 0,
     status |-> "none", stderr_captured |-> 0]

\* spawn() gives the child, or fails and expect() panics
spawn_child(w, cwd, ok) ==
    IF ok
    THEN [w EXCEPT !.pc = "child", !.spawns = @ + 1,
                   !.locals.child = <<spawned(boulder_command(w, cwd))>>]
    ELSE [w EXCEPT !.pc = "panicked", !.locals = NoLocals]

SpawnChild(i, ok) ==
    /\ i \in 1..Len(packages)
    /\ workers[i].pc = "decided"
    /\ workers[i].outcome = "Update"
    /\ workers' = [workers EXCEPT ![i] = spawn_child(workers[i], procCwd, ok)]
    /\ UNCHANGED <<packages, procCwd, dpc, idx, probe>>

----------------------------------------------------------------------------
(* The updater process and the handshake of Package::update with it.  The  *)
(* updater writes any amounts to its stdout and stderr, in any order, and  *)
(* then exits; a write to a full pipe blocks until the pipe is read.       *)

ChildOf(i) == workers[i].locals.child[1]
HasChild(i) == i \in 1..Len(packages) /\ workers[i].locals.child # <<>>

\* a write(2) of the child: it goes into the pipe, or blocks when the pipe is full
child_write(child, stream) ==
    IF stream = "stdout"
    THEN IF child.stdout_pipe < PipeCapacity
         THEN [child EXCEPT !.stdout_pipe = @ + 1]
         ELSE [child EXCEPT !.cpc = "blocked_stdout"]
    ELSE IF child.stderr_pipe < PipeCapacity
         THEN [child EXCEPT !.stderr_pipe = @ + 1]
         ELSE [child EXCEPT !.cpc = "blocked_stderr"]

ChildWrite(i, stream) ==
    /\ HasChild(i)
    /\ ChildOf(i).cpc = "run"
    /\ workers' = [workers EXCEPT ![i].locals.child = <<child_write(ChildOf(i), stream)>>]
    /\ UNCHANGED <<packages, procCwd, dpc, idx, probe>>

\* a blocked write goes on once its pipe has room
ChildUnblock(i) ==
    /\ HasChild(i)
    /\ \/ ChildOf(i).cpc = "blocked_stdout" /\ ChildOf(i).stdout_pipe < PipeCapacity
       \/ ChildOf(i).cpc = "blocked_stderr" /\ ChildOf(i).stderr_pipe < PipeCapacity
    /\ workers' = [workers EXCEPT ![i].locals.child =
                      <<child_write([ChildOf(i) EXCEPT !.cpc = "run"],
                                    IF ChildOf(i).cpc = "blocked_stdout" THEN "stdout"
                                    ELSE "stderr")>>]
    /\ UNCHANGED <<packages, procCwd, dpc, idx, probe>>

\* the child exits, which closes its ends of both pipes
ChildExit(i, success) ==
    /\ HasChild(i)
    /\ ChildOf(i).cpc = "run"
    /\ workers' = [workers EXCEPT ![i].locals.child =
                      <<[ChildOf(i) EXCEPT !.cpc = "exited",
                                           !.status = IF success THEN "success" ELSE "failure"]>>]
    /\ UNCHANGED <<packages, procCwd, dpc, idx, probe>>

\* stdout_reader.lines(): one line is taken from the stdout pipe and printed
ReadStdoutLine(i) ==
    /\ HasChild(i)
    /\ workers[i].pc = "child"
    /\ ChildOf(i).stdout_pipe > 0
    /\ workers' = [workers EXCEPT ![i].locals.child = <<[ChildOf(i) EXCEPT !.stdout_pipe = @ - 1]>>]
    /\ UNCHANGED <<packages, procCwd, dpc, idx, probe>>

\* stdout_reader.lines() ends: the stdout pipe is empty and its write end is
\* closed; update goes on to wait_with_output
StdoutEof(i) ==
    /\ HasChild(i)
    /\ workers[i].pc = "child"
    /\ ChildOf(i).stdout_pipe = 0
    /\ ChildOf(i).cpc = "exited"
    /\ workers' = [workers EXCEPT ![i].pc = "wait"]
    /\ UNCHANGED <<packages, procCwd, dpc, idx, probe>>

\* wait_with_output reads the stderr pipe to its end
WaitReadStderr(i) ==
    /\ HasChild(i)
    /\ workers[i].pc = "wait"
    /\ ChildOf(i).stderr_pipe > 0
    /\ workers' = [workers EXCEPT ![i].locals.child =
                      <<[ChildOf(i) EXCEPT !.stderr_pipe = @ - 1, !.stderr_captured = @ + 1]>>]
    /\ UNCHANGED <<packages, procCwd, dpc, idx, probe>>

\* wait_with_output returns the exit status and the captured stderr; both
\* statuses end in Ok(())
WaitReturn(i) ==
    /\ HasChild(i)
    /\ workers[i].pc = "wait"
    /\ ChildOf(i).stderr_pipe = 0
    /\ ChildOf(i).cpc = "exited"
    /\ workers' = [workers EXCEPT ![i] = update_return(workers[i])]
    /\ UNCHANGED <<packages, procCwd, dpc, idx, probe>>

----------------------------------------------------------------------------
(* update_cosmic_packages *)

\* for_each takes the next package; thread::scope spawns its thread
Spawn(i) ==
    /\ dpc = "iter"
    /\ idx = i
    /\ i \in 1..Len(packages)
    /\ workers[i].pc = "unspawned"
    /\ workers' = [workers EXCEPT ![i].pc = "update"]
    /\ dpc' = "scope"
    /\ UNCHANGED <<packages, procCwd, idx, probe>>

\* scope_joinable of a dispatcher that does not wait for its thread
scope_joinable_detached(w) == w.pc # "unspawned"

\* the thread the scope waits for has ended
scope_joinable(w) == w.pc \in {"finished", "panicked"}

\* thread::scope returns when its thread has ended, and panics when the thread
\* panicked; the panic unwinds out of for_each and update_cosmic_packages
ScopeJoin(i) ==
    /\ dpc = "scope"
    /\ idx = i
    /\ i \in 1..Len(packages)
    /\ scope_joinable(workers[i])
    /\ IF workers[i].pc = "panicked"
       THEN dpc' = "panicked" /\ idx' = idx
       ELSE dpc' = "iter" /\ idx' = idx + 1
    /\ UNCHANGED <<packages, procCwd, workers, probe>>

\* the iterator is exhausted: update_cosmic_packages returns
Return ==
    /\ dpc = "iter"
    /\ idx > Len(packages)
    /\ dpc' = "returned"
    /\ UNCHANGED <<packages, procCwd, idx, workers, probe>>

Next ==
    \/ \E i \in 1..MaxPackages : Spawn(i)
    \/ \E i \in 1..MaxPackages : ScopeJoin(i)
    \/ Return
    \/ \E i \in 1..MaxPackages : UpdateLoad(i)
    \/ \E i \in 1..MaxPackages : \E resp \in Responses : RemoteLookup(i, resp)
    \/ \E i \in 1..MaxPackages : UpdateReturn(i)
    \/ \E i \in 1..MaxPackages : \E ok \in BOOLEAN : SpawnChild(i, ok)
    \/ \E i \in 1..MaxPackages : \E stream \in {"stdout", "stderr"} : ChildWrite(i, stream)
    \/ \E i \in 1..MaxPackages : ChildUnblock(i)
    \/ \E i \in 1..MaxPackages : \E success \in BOOLEAN : ChildExit(i, success)
    \/ \E i \in 1..MaxPackages : ReadStdoutLine(i)
    \/ \E i \in 1..MaxPackages : StdoutEof(i)
    \/ \E i \in 1..MaxPackages : WaitReadStderr(i)
    \/ \E i \in 1..MaxPackages : WaitReturn(i)

Spec == Init /\ [][Next]_vars

----------------------------------------------------------------------------
(* Calls of the pure helpers on bounded inputs *)

Strs(alphabet, n) == UNION {[1..k -> alphabet] : k \in 0..n}

\* characters of the URLs and of the versions given to replace_version_in_url
UrlAlphabet == {"v", "1", ".", "/"}
VersionAlphabet == {"1", "."}

FooGithubCom == <<"f", "o", "o", ".">> \o GithubCom

\* URLs given to is_git_source: [git|]https://<host><path>
ClassifyUrls ==
    { prefix \o Scheme \o host \o path :
        prefix \in {EmptyStr, GitMarker},
        host \in git_forges \cup {ExampleOrg, FooGithubCom},
        path \in { <<"/", "a", "/", "b">>,
                   <<"/", "a", "/", "b", ".", "g", "i", "t">>,
                   <<"/">> \o GithubCom \o <<"/", "a", "/", "b", ".", "g", "i", "t">>,
                   <<"/", "a", "-", "1", ".", "t", "g", "z">> } }

\* no package set: the dispatcher and the workers stay idle
Idle ==
    /\ packages = <<>>
    /\ procCwd = LaunchDir
    /\ dpc = "returned"
    /\ idx = 1
    /\ workers = <<>>

InitReplace ==
    /\ Idle
    /\ \E url \in Strs(UrlAlphabet, MaxUrlLen) :
       \E old_version \in Strs(VersionAlphabet, MaxVerLen) :
       \E new_version \in Strs(VersionAlphabet, MaxVerLen) :
           probe = [fn |-> "replace_version_in_url",
                    args |-> <<url, old_version, new_version>>,
                    done |-> FALSE, out |-> <<>>]

ReplaceCall ==
    /\ probe.fn = "replace_version_in_url"
    /\ ~probe.done
    /\ probe' = [probe EXCEPT !.done = TRUE,
                              !.out = <<replace_version_in_url(probe.args[1], probe.args[2],
                                                               probe.args[3])>>]
    /\ UNCHANGED <<packages, procCwd, dpc, idx, workers>>

NextReplace == ReplaceCall

SpecReplace == InitReplace /\ [][NextReplace]_vars

InitClassify ==
    /\ Idle
    /\ \E url \in ClassifyUrls : \E kind \in {"string", "mapping"} :
           probe = [fn |-> "is_git_source",
                    args |-> deserialize_upstream_item(RawItem(url, kind, Hash1)),
                    done |-> FALSE, out |-> <<>>]

ClassifyCall ==
    /\ probe.fn = "is_git_source"
    /\ ~probe.done
    /\ probe' = [probe EXCEPT !.done = TRUE, !.out = <<is_git_source(probe.args[1])>>]
    /\ UNCHANGED <<packages, procCwd, dpc, idx, workers>>

NextClassify == ClassifyCall

SpecClassify == InitClassify /\ [][NextClassify]_vars

----------------------------------------------------------------------------
(* Properties *)

Pkgs == 1..Len(packages)

\* update_cosmic_packages has ended, by returning or by unwinding
RunEnded == dpc \in {"returned", "panicked"}

\* both documents of the package can be read and parse
WellFormed(package) ==
    package.monitoring_doc.state = "ok" /\ package.manifest_doc.state = "ok"

\* latest_vers and latest_hash_or_url of worker i are known
LatestKnown(i) == workers[i].locals.latest # <<>>
LatestVers(i) == workers[i].locals.latest[1][1]
LatestId(i) == workers[i].locals.latest[1][2]
ManifestOf(i) == workers[i].locals.manifest[1]

\* C1: failure isolation.  When the run has ended and exactly one package of the
\* set has an unreadable or malformed document, Package::update has been run to
\* its end for every other package.
C1_FailureIsolation ==
    (RunEnded /\ Cardinality({f \in Pkgs : ~WellFormed(packages[f])}) = 1)
        => \A i \in Pkgs : WellFormed(packages[i]) => workers[i].calls = 1
                                                      /\ workers[i].pc \in {"finished", "panicked"}

\* C2: all workers are launched at the start of the run, none waits for another
\* to complete: while some worker is inside Package::update and some package has
\* no worker yet, the dispatcher can launch a worker.
C2_ConcurrentLaunch ==
    ( /\ \E i \in Pkgs : workers[i].pc \in Running
      /\ \E j \in Pkgs : workers[j].pc = "unspawned" )
        => \E j \in Pkgs : ENABLED Spawn(j)

\* C3: every package is processed at most once at any time (one call of update,
\* one decision, one start of the updater), and when update_cosmic_packages
\* returns every package has been processed exactly once and no worker runs.
C3_ProcessedExactlyOnce ==
    /\ \A i \in Pkgs : /\ workers[i].calls <= 1
                       /\ workers[i].decisions <= 1
                       /\ workers[i].spawns <= 1
    /\ dpc = "returned" => \A i \in Pkgs : /\ workers[i].calls = 1
                                           /\ workers[i].pc = "finished"

\* C3 witness: the call has returned from a set of two or more packages, one of
\* which was updated
C3_Witness ==
    /\ dpc = "returned"
    /\ Len(packages) >= 2
    /\ \E i \in Pkgs : workers[i].spawns = 1
    /\ \A i \in Pkgs : workers[i].calls = 1

\* C4: an empty latest identity ends in Skip: the updater is not started and the
\* worker goes on to return Ok, whatever the two versions are.
C4_EmptyIdentitySkips ==
    \A i \in Pkgs :
        /\ (LatestKnown(i) /\ LatestId(i) = EmptyStr)
               => /\ workers[i].outcome = "Skip"
                  /\ workers[i].pc = "decided"
                  /\ ENABLED UpdateReturn(i)
        /\ workers[i].outcome = "Skip"
               => workers[i].spawns = 0 /\ workers[i].pc \in {"decided", "finished"}

\* C4 witness: the remote version equals the non-empty current version, the
\* identity is empty, and update has decided to skip
C4_Witness ==
    \E i \in Pkgs :
        /\ LatestKnown(i)
        /\ LatestId(i) = EmptyStr
        /\ LatestVers(i) = ManifestOf(i).version
        /\ LatestVers(i) # EmptyStr
        /\ workers[i].outcome = "Skip"


\* the first upstream entry of the manifest worker i has parsed
FirstEntry(i) == first_upstream(ManifestOf(i))[1]
HasFirstEntry(i) == LatestKnown(i) /\ first_upstream(ManifestOf(i)) # <<>>

\* the response worker i has received, if it has received one
HasResponse(i) == LatestKnown(i) /\ workers[i].locals.resp # <<>>
ResponseOf(i) == workers[i].locals.resp[1]

\* the remote lookup gave worker i a version
GotVersion(i) ==
    HasResponse(i) /\ ResponseOf(i).transport = "ok" /\ ResponseOf(i).decodes

\* latest version and identity of worker i are those of the manifest
SameAsCurrent(i) ==
    /\ HasFirstEntry(i)
    /\ LatestVers(i) = ManifestOf(i).version
    /\ LatestId(i) = get_current_hash(FirstEntry(i))

\* C5 as stated: equal versions and equal identities give NoOp, and a remote
\* version equal to the manifest's never starts the updater.
C5_SameIsNoOp ==
    \A i \in Pkgs :
        /\ SameAsCurrent(i) => workers[i].outcome = "NoOp"
        /\ (GotVersion(i) /\ ResponseOf(i).version = ManifestOf(i).version)
               => workers[i].outcome # "Update" /\ workers[i].spawns = 0

\* C5 amended: equal versions and equal identities give NoOp when the identity
\* is not empty and Skip when it is empty, never Update; a remote version equal
\* to the manifest's never starts the updater.
C5_SameIsNoOpOrSkip ==
    \A i \in Pkgs :
        /\ SameAsCurrent(i)
               => /\ workers[i].outcome = (IF LatestId(i) = EmptyStr THEN "Skip" ELSE "NoOp")
                  /\ workers[i].spawns = 0
                  /\ workers[i].pc = "decided"
        /\ (GotVersion(i) /\ ResponseOf(i).version = ManifestOf(i).version)
               => /\ SameAsCurrent(i)
                  /\ workers[i].outcome # "Update"
                  /\ workers[i].spawns = 0

\* C5 witness: the remote version equals the manifest's, the resolver echoed the
\* non-empty current hash, and update decided NoOp
C5_Witness ==
    \E i \in Pkgs :
        /\ GotVersion(i)
        /\ ResponseOf(i).version = ManifestOf(i).version
        /\ LatestId(i) = get_current_hash(FirstEntry(i))
        /\ LatestId(i) # EmptyStr
        /\ workers[i].outcome = "NoOp"

\* C6: for an Archive first entry and a remote version that differs from the
\* (non-empty) current one, the latest identity is the entry's URL with the
\* current version replaced by the remote one, and the outcome is Update with
\* that version and that URL as its upstream argument.
C6_ArchiveSubstitution ==
    \A i \in Pkgs :
        ( /\ GotVersion(i)
          /\ HasFirstEntry(i)
          /\ get_version_source_type(FirstEntry(i)) = "Archive"
          /\ ResponseOf(i).version # ManifestOf(i).version
          /\ ResponseOf(i).version # EmptyStr
          /\ ManifestOf(i).version # EmptyStr )
            => /\ LatestId(i) = str_replace(FirstEntry(i).url, ManifestOf(i).version,
                                            ResponseOf(i).version)
               /\ LatestVers(i) = ResponseOf(i).version
               /\ workers[i].outcome = "Update"
               /\ workers[i].locals.upstream_arg = LatestId(i)

\* C8: without a usable version from the service the resolver's result is empty:
\* no tracking id (and then no request), transport failure, a status other than
\* 200, or a body that does not decode.
C8_LookupFailureIsEmpty ==
    \A i \in Pkgs :
        LatestKnown(i) =>
            /\ ~workers[i].locals.monitoring[1].id_some
                   => /\ workers[i].locals.latest[1] = <<EmptyStr, EmptyStr>>
                      /\ workers[i].requests = 0
            /\ ( /\ HasResponse(i)
                 /\ \/ ResponseOf(i).transport # "ok"
                    \/ ResponseOf(i).status # "200"
                    \/ ~ResponseOf(i).decodes )
                   => /\ workers[i].locals.latest[1] = <<EmptyStr, EmptyStr>>
                      /\ workers[i].outcome = "Skip"

\* C10: the updater runs only on an Update outcome, with exactly the argument
\* list recipe update --ver <version> --upstream <arg> stone.yaml -w --build
\* --local, and in the package's own directory.
C10_UpdaterInvocation ==
    \A i \in Pkgs :
        /\ workers[i].spawns > 0 => workers[i].outcome = "Update"
        /\ workers[i].locals.child # <<>>
               => /\ workers[i].outcome = "Update"
                  /\ workers[i].locals.child[1].args =
                         << "recipe", "update", "--ver", LatestVers(i), "--upstream",
                            workers[i].locals.upstream_arg, "stone.yaml", "-w", "--build",
                            "--local" >>
                  /\ workers[i].locals.child[1].cwd = packages[i].path

\* C11: with a tracking id and a lookup that succeeds (status 200, a body with
\* a non-empty version) for a first entry whose current hash is not empty,
\* get_latest returns a non-empty version and a non-empty hash or URL, a
\* version-control entry with a changed remote version included.
C11_LatestInfoNonEmpty ==
    \A i \in Pkgs :
        ( /\ GotVersion(i)
          /\ HasFirstEntry(i)
          /\ workers[i].locals.monitoring[1].id_some
          /\ ResponseOf(i).status = "200"
          /\ ResponseOf(i).version # EmptyStr
          /\ get_current_hash(FirstEntry(i)) # EmptyStr )
            => /\ LatestVers(i) # EmptyStr
               /\ LatestId(i) # EmptyStr

\* update reads the child's stdout and has nothing to read: it waits for a
\* line or for the end of the stream
AwaitsStdout(i) ==
    HasChild(i) /\ workers[i].pc = "child" /\ ChildOf(i).stdout_pipe = 0

\* C12: the handshake with the updater cannot get stuck: the worker never waits
\* for the end of the child's stdout while the child is blocked in a write to a
\* full stderr pipe.
C12_NoPipeDeadlock ==
    \A i \in Pkgs :
        ~(AwaitsStdout(i) /\ ChildOf(i).cpc = "blocked_stderr"
                          /\ ChildOf(i).stderr_pipe = PipeCapacity)

----------------------------------------------------------------------------
(* Properties of the pure helpers *)

\* C7: replacing version X by X in a URL that contains X gives the URL back
\* for every non-empty X.
C7_NoOpSubstitution ==
    ( /\ probe.fn = "replace_version_in_url"
      /\ probe.done
      /\ probe.args[2] = probe.args[3]
      /\ probe.args[2] # EmptyStr
      /\ contains(probe.args[1], probe.args[2]) )
        => probe.out[1] = probe.args[1]

\* the host of a URL: what follows the scheme (after a git| marker, if any),
\* up to the first "/"
AfterPrefix(s, p) == IF starts_with(s, p) THEN SubSeq(s, Len(p) + 1, Len(s)) ELSE s
UpToSlash(s) ==
    LET slashes == {k \in 1..Len(s) : s[k] = "/"}
    IN  IF slashes = {} THEN s ELSE SubSeq(s, 1, SetMin(slashes) - 1)
url_host(url) == UpToSlash(AfterPrefix(AfterPrefix(url, GitMarker), Scheme))

\* C9: an entry is a version-control source exactly when its URL starts with
\* git|, or its host is an allow-listed forge and the URL contains .git.
C9_Classification ==
    (probe.fn = "is_git_source" /\ probe.done)
        => probe.out[1] =
               ( \/ starts_with(probe.args[1].url, GitMarker)
                 \/ /\ url_host(probe.args[1].url) \in git_forges
                    /\ contains(probe.args[1].url, GitSuffix) )

====
